---- MODULE Spec2Model ----
(***************************************************************************)
(* Model of scripts/build_auto.py: locate an LLVM installation, regenerate *)
(* llvm_libs.rsp and rebuild_auto.bat, then optionally run the build.      *)
(*                                                                         *)
(* The file system is a function from directory paths to what the script   *)
(* can observe of them; text files are sequences of lines.                 *)
(***************************************************************************)
EXTENDS Integers, Sequences, FiniteSets, TLC

VARIABLES
    argv,         \* sys.argv of the current invocation
    env,          \* os.environ restricted to the three LLVM variables
    fs,           \* directory path -> [kind, inc, haslib, libs]
    iter_rev,     \* whether the OS lists directory entries in reverse order
    where_clang,  \* outcome of `where clang`
    rsp,          \* llvm_libs.rsp    : [exists, lines]
    tpl,          \* rebuild_all.bat  : [exists, lines]
    bat,          \* rebuild_auto.bat : [exists, lines]
    pc,           \* position of the current invocation inside main
    llvm_root,    \* main's llvm_root (NONE before detection / when not found)
    consulted,    \* the probes detect_llvm_path made, in order
    warning,      \* the last "Warning: N libs not found" printed, if any
    child_code,   \* << >> until the build has run, then << the child's exit code >>
    exit_code,    \* << >> while the invocation runs, then << its exit code >>
    steps,        \* the steps the current invocation has started, in order
    wrote,        \* the files the current invocation has written
    runs,         \* number of invocations started so far
    rsp_hist      \* manifest contents written by successive generations

vars == << argv, env, fs, iter_rev, where_clang, rsp, tpl, bat, pc, llvm_root,
           consulted, warning, child_code, exit_code, steps, wrote, runs, rsp_hist >>

----------------------------------------------------------------------------
(* Bounds of the model *)

MaxManifestLen == 3
MaxTemplateLen == 3
MaxRuns == 2

----------------------------------------------------------------------------
(* Values *)

NONE == "<None>"          \* Python's None

Truthy(v) == v # NONE /\ v # ""

EnvNames == << "LLVM_PATH", "LLVM_DIR", "LLVM_HOME" >>

candidates == << "C:\\LLVM-dev", "C:\\Program Files\\LLVM", "C:\\llvm" >>

\* Directories the model's file system knows about.
Cwd == "C:\\work"
Dirs == { "C:\\work\\llvm", "D:\\sdk",
          "C:\\LLVM-dev", "C:\\LLVM-dev\\a", "C:\\LLVM-dev\\b",
          "C:\\Program Files\\LLVM", "C:\\Program Files\\LLVM\\a",
          "C:\\llvm" }

\* Entries that may exist directly under a well-known directory.
Children(base) ==
    IF base = "C:\\LLVM-dev" THEN << "C:\\LLVM-dev\\a", "C:\\LLVM-dev\\b" >>
    ELSE IF base = "C:\\Program Files\\LLVM" THEN << "C:\\Program Files\\LLVM\\a" >>
    ELSE << >>

\* Path(s).resolve(): an absolute path is kept, a relative one is joined to
\* the working directory.
IsAbsolute(s) == s \in Dirs
Resolve(s) == IF IsAbsolute(s) THEN s ELSE Cwd \o "\\" \o s

----------------------------------------------------------------------------
(* File system probes *)

Missing  == [kind |-> "missing", inc |-> FALSE, haslib |-> FALSE, libs |-> {}]
Node(p)  == IF p \in DOMAIN fs THEN fs[p] ELSE Missing

Exists(p)     == Node(p).kind # "missing"                  \* p.exists()
IsDir(p)      == Node(p).kind = "dir"                      \* p.is_dir()
LibDirExists(p) == Node(p).haslib                          \* (p / "lib").exists()
HasCoreLib(p) == Node(p).haslib /\ "LLVMCore.lib" \in Node(p).libs
HasIncLlvm(p) == Node(p).inc                               \* (p / "include" / "llvm").exists()

Reverse(s) == [i \in 1..Len(s) |-> s[Len(s) + 1 - i]]

\* base.iterdir(): the existing entries, in the order the OS lists them.
Iterdir(base) ==
    LET all == IF iter_rev THEN Reverse(Children(base)) ELSE Children(base)
    IN  SelectSeq(all, Exists)

----------------------------------------------------------------------------
(* detect_llvm_path *)

Probe(strategy, p) == [s |-> strategy, p |-> p]
NotFound == [root |-> NONE, seen |-> << >>]

\* 1. Explicit override
DetectOverride(override) ==
    LET p == Resolve(override)
    IN  [root |-> IF HasCoreLib(p) THEN p
                  ELSE IF HasIncLlvm(p) THEN p
                  ELSE NONE,
         seen |-> << Probe("override", p) >>]

\* Variant: the loop stops at the first variable that is set, accepted or not.
RECURSIVE DetectEnvFirstSet(_)
DetectEnvFirstSet(i) ==
    IF i > Len(EnvNames) THEN NotFound
    ELSE LET v == env[EnvNames[i]]
             p == Resolve(v)
         IN  IF Truthy(v)
             THEN [root |-> IF HasCoreLib(p) \/ HasIncLlvm(p) THEN p ELSE NONE,
                   seen |-> << Probe(EnvNames[i], p) >>]
             ELSE DetectEnvFirstSet(i + 1)

\* 2. Environment: for env in (...): v = os.environ.get(env); if v: ...
RECURSIVE DetectEnv(_)
DetectEnv(i) ==
    IF i > Len(EnvNames) THEN NotFound
    ELSE LET v    == env[EnvNames[i]]
             p    == Resolve(v)
             rest == DetectEnv(i + 1)
         IN  IF Truthy(v)
             THEN IF HasCoreLib(p) \/ HasIncLlvm(p)
                  THEN [root |-> p, seen |-> << Probe(EnvNames[i], p) >>]
                  ELSE [root |-> rest.root,
                        seen |-> << Probe(EnvNames[i], p) >> \o rest.seen]
             ELSE rest

\* for sub in base.iterdir(): ...
RECURSIVE ScanSubs(_)
ScanSubs(subs) ==
    IF subs = << >> THEN NotFound
    ELSE LET sub  == Head(subs)
             rest == ScanSubs(Tail(subs))
         IN  IF IsDir(sub) /\ HasCoreLib(sub)
             THEN [root |-> sub, seen |-> << Probe("sub", sub) >>]
             ELSE [root |-> rest.root,
                   seen |-> << Probe("sub", sub) >> \o rest.seen]

\* Variant: a base with include/llvm alone is taken as a root as well.
ExamineBaseEitherMarker(base) ==
    IF IsDir(base)
    THEN IF HasCoreLib(base) \/ HasIncLlvm(base)
         THEN [root |-> base, seen |-> << Probe("dir", base) >>]
         ELSE LET r == ScanSubs(Iterdir(base))
              IN  [root |-> r.root, seen |-> << Probe("dir", base) >> \o r.seen]
    ELSE [root |-> NONE, seen |-> << Probe("dir", base) >>]

\* What the loop over candidates does with a base that exists, before `break`.
ExamineBase(base) ==
    IF IsDir(base)
    THEN IF HasCoreLib(base)
         THEN [root |-> base, seen |-> << Probe("dir", base) >>]
         ELSE LET r == ScanSubs(Iterdir(base))
              IN  [root |-> r.root, seen |-> << Probe("dir", base) >> \o r.seen]
    ELSE [root |-> NONE, seen |-> << Probe("dir", base) >>]

\* Variant: the loop has no `break` and goes on to the next candidate.
RECURSIVE DetectCommonNoBreak(_)
DetectCommonNoBreak(i) ==
    IF i > Len(candidates) THEN NotFound
    ELSE IF ~Exists(candidates[i]) THEN DetectCommonNoBreak(i + 1)
    ELSE LET r    == ExamineBase(candidates[i])
             rest == DetectCommonNoBreak(i + 1)
         IN  IF r.root # NONE THEN r
             ELSE [root |-> rest.root, seen |-> r.seen \o rest.seen]

\* 3. Common locations: skip missing bases, examine the first existing one, break.
RECURSIVE DetectCommon(_)
DetectCommon(i) ==
    IF i > Len(candidates) THEN NotFound
    ELSE IF ~Exists(candidates[i]) THEN DetectCommon(i + 1)
    ELSE ExamineBase(candidates[i])

\* 4. From clang in PATH: root = parent of the bin directory of the first hit.
DetectClang ==
    IF where_clang.ok /\ where_clang.suffix \in {".exe", ""}
    THEN [root |-> IF HasCoreLib(where_clang.root) THEN where_clang.root ELSE NONE,
          seen |-> << Probe("clang", where_clang.root) >>]
    ELSE [root |-> NONE, seen |-> << Probe("clang", NONE) >>]

\* Variant: a rejected override falls through to the other strategies.
detect_llvm_path_fallthrough(override) ==
    LET o == IF Truthy(override) THEN DetectOverride(override) ELSE NotFound
        e == DetectEnv(1)
        c == DetectCommon(1)
        k == DetectClang
    IN  IF o.root # NONE THEN o
        ELSE IF e.root # NONE THEN [root |-> e.root, seen |-> o.seen \o e.seen]
        ELSE IF c.root # NONE THEN [root |-> c.root, seen |-> o.seen \o e.seen \o c.seen]
        ELSE [root |-> k.root, seen |-> o.seen \o e.seen \o c.seen \o k.seen]

detect_llvm_path(override) ==
    IF Truthy(override) THEN DetectOverride(override)
    ELSE LET e == DetectEnv(1) IN
         IF e.root # NONE THEN e
         ELSE LET c == DetectCommon(1) IN
              IF c.root # NONE THEN [root |-> c.root, seen |-> e.seen \o c.seen]
              ELSE LET k == DetectClang IN
                   [root |-> k.root, seen |-> e.seen \o c.seen \o k.seen]

----------------------------------------------------------------------------
(* Text files: a file is [exists, lines]; a line of llvm_libs.rsp is        *)
(* [q, dir, name] (quoted?, directory part, last path component); a line of *)
(* a batch script is a sequence of tokens.                                  *)

Absent      == [exists |-> FALSE, lines |-> << >>]
File(lines) == [exists |-> TRUE, lines |-> lines]

Min(a, b) == IF a < b THEN a ELSE b

\* File names of the model, in the order sorted() puts them (code points).
AllNames == << "LLVMAnalysis.lib", "LLVMCore.lib", "LLVMCore.pdb", "zlib.lib" >>
EndsWithLib(n) == n \in {"LLVMAnalysis.lib", "LLVMCore.lib", "zlib.lib"}
GlobLLVMLib(n) == n \in {"LLVMAnalysis.lib", "LLVMCore.lib"}     \* LLVM*.lib
Sorted(S)      == SelectSeq(AllNames, LAMBDA n : n \in S)

BlankLine    == [q |-> FALSE, dir |-> "", name |-> ""]
CommentLine  == [q |-> FALSE, dir |-> "", name |-> "# LLVM libraries"]
IsBlank(l)   == l.dir = "" /\ l.name = ""                  \* not line (after strip)
IsComment(l) == l.dir = "" /\ l.name = "# LLVM libraries"  \* line.startswith("#")

LibDir(root)      == root \o "\\lib"                       \* llvm_root / "lib"
LibExists(root, n) == n \in Node(root).libs                \* (lib_dir / name).exists()
QuotedPath(root, n) == [q |-> TRUE, dir |-> LibDir(root), name |-> n]
QuotedPaths(root, names) == [i \in 1..Len(names) |-> QuotedPath(root, names[i])]
NamesOf(lines) == [i \in 1..Len(lines) |-> lines[i].name]            \* Path(line).name

\* The basenames kept from the lines of an existing llvm_libs.rsp.
KeepLine(l) == ~IsBlank(l) /\ ~IsComment(l) /\ EndsWithLib(l.name)
BasenamesOf(lines) == NamesOf(SelectSeq(lines, KeepLine))

\* sorted() of a list: equal entries stay, in the order of AllNames.
SortedSeq(names) ==
    SelectSeq(names, LAMBDA n : n = AllNames[1]) \o SelectSeq(names, LAMBDA n : n = AllNames[2]) \o
    SelectSeq(names, LAMBDA n : n = AllNames[3]) \o SelectSeq(names, LAMBDA n : n = AllNames[4])

\* Variant: the list taken from the previous manifest is sorted as well.
lib_basenames_sorted(root) ==
    LET prev == IF rsp.exists THEN BasenamesOf(rsp.lines) ELSE << >>
    IN  IF prev # << >> THEN SortedSeq(prev)
        ELSE Sorted({n \in Node(root).libs : GlobLLVMLib(n)})

\* lib_basenames: the previous list if it has any entry, else the sorted glob.
lib_basenames(root) ==
    LET prev == IF rsp.exists THEN BasenamesOf(rsp.lines) ELSE << >>
    IN  IF prev # << >> THEN prev
        ELSE Sorted({n \in Node(root).libs : GlobLLVMLib(n)})

ExistingOf(root, names) == SelectSeq(names, LAMBDA n : LibExists(root, n))
MissingOf(root, names)  == SelectSeq(names, LAMBDA n : ~LibExists(root, n))

\* write_text("\n".join(lines) + "\n"): no line at all still writes one "\n".
Written(lines) == IF lines = << >> THEN << BlankLine >> ELSE lines

PreviewLen == 5
NoWarning == [count |-> 0, preview |-> << >>]
WarningFor(missing) ==
    IF missing = << >> THEN NoWarning
    ELSE [count |-> Len(missing),
          preview |-> SubSeq(missing, 1, Min(PreviewLen, Len(missing)))]

\* Variant: every basename is written, whether or not it exists under lib/.
ManifestForUnfiltered(root) ==
    Written(QuotedPaths(root, lib_basenames(root)))

\* The content generate_llvm_libs_rsp writes for root.
ManifestFor(root) ==
    Written(QuotedPaths(root, ExistingOf(root, lib_basenames(root))))

----------------------------------------------------------------------------
(* rebuild_all.bat -> rebuild_auto.bat *)

SetPrefix == "set LLVM_DIR="
Matches(line) == Len(line) >= 1 /\ line[1] = SetPrefix     \* ^set LLVM_DIR=.*$
HasMatch(lines) == \E i \in 1..Len(lines) : Matches(lines[i])
FirstMatch(lines) ==
    CHOOSE i \in 1..Len(lines) :
        Matches(lines[i]) /\ \A j \in 1..(i - 1) : ~Matches(lines[j])

new_line(root) == << SetPrefix, root >>

\* Variant: pattern.sub without count=1 replaces every matching line.
new_content_all(lines, root) ==
    [i \in 1..Len(lines) |-> IF Matches(lines[i]) THEN new_line(root) ELSE lines[i]]

\* pattern.sub(lambda m: new_line, content, count=1)
new_content(lines, root) ==
    [i \in 1..Len(lines) |->
        IF i = FirstMatch(lines) THEN new_line(root) ELSE lines[i]]

----------------------------------------------------------------------------
(* main *)

\* while i < len(sys.argv): if sys.argv[i] == "--llvm" and i + 1 < len(sys.argv)
RECURSIVE ParseOverride(_, _, _)
ParseOverride(av, i, cur) ==
    IF i > Len(av) THEN cur
    ELSE IF av[i] = "--llvm" /\ i + 1 <= Len(av)
         THEN ParseOverride(av, i + 2, av[i + 1])
         ELSE ParseOverride(av, i + 1, cur)

llvm_override == ParseOverride(argv, 1, NONE)
no_run == \E i \in 1..Len(argv) : argv[i] = "--no-run"

Inputs == << argv, env, fs, iter_rev, where_clang, tpl >>

\* main, up to and including "Using LLVM: ..."
Locate ==
    /\ pc = "start"
    /\ LET d == detect_llvm_path(llvm_override) IN
        /\ consulted' = d.seen
        /\ steps' = Append(steps, "locate")
        /\ IF d.root = NONE
           THEN /\ llvm_root' = NONE
                /\ pc' = "exited"
                /\ exit_code' = << 1 >>
           ELSE /\ llvm_root' = Resolve(d.root)
                /\ pc' = "located"
                /\ exit_code' = exit_code
    /\ UNCHANGED << Inputs, rsp, bat, warning, child_code, wrote, runs, rsp_hist >>

\* generate_llvm_libs_rsp(llvm_root); an exception ends the process with code 1
GenerateManifest ==
    /\ pc = "located"
    /\ steps' = Append(steps, "manifest")
    /\ IF ~LibDirExists(llvm_root)
       THEN /\ pc' = "exited"
            /\ exit_code' = << 1 >>
            /\ UNCHANGED << rsp, warning, wrote, rsp_hist >>
       ELSE /\ rsp' = File(ManifestFor(llvm_root))
            /\ warning' = WarningFor(MissingOf(llvm_root, lib_basenames(llvm_root)))
            /\ wrote' = wrote \cup {"llvm_libs.rsp"}
            /\ rsp_hist' = Append(rsp_hist, ManifestFor(llvm_root))
            /\ pc' = "manifest"
            /\ exit_code' = exit_code
    /\ UNCHANGED << Inputs, bat, llvm_root, consulted, child_code, runs >>

\* Variant: the output file is opened for writing before the template is
\* read and searched, so a failure leaves it truncated.
GenerateScriptTruncating ==
    /\ pc = "manifest"
    /\ steps' = Append(steps, "script")
    /\ IF ~tpl.exists \/ ~HasMatch(tpl.lines)
       THEN /\ pc' = "exited"
            /\ exit_code' = << 1 >>
            /\ bat' = File(<< >>)
            /\ wrote' = wrote
       ELSE /\ bat' = File(new_content(tpl.lines, llvm_root))
            /\ wrote' = wrote \cup {"rebuild_auto.bat"}
            /\ pc' = "script"
            /\ exit_code' = exit_code
    /\ UNCHANGED << Inputs, rsp, llvm_root, consulted, warning, child_code, runs, rsp_hist >>

\* generate_rebuild_auto_bat(llvm_root); an exception ends the process with code 1
GenerateScript ==
    /\ pc = "manifest"
    /\ steps' = Append(steps, "script")
    /\ IF ~tpl.exists \/ ~HasMatch(tpl.lines)
       THEN /\ pc' = "exited"
            /\ exit_code' = << 1 >>
            /\ UNCHANGED << bat, wrote >>
       ELSE /\ bat' = File(new_content(tpl.lines, llvm_root))
            /\ wrote' = wrote \cup {"rebuild_auto.bat"}
            /\ pc' = "script"
            /\ exit_code' = exit_code
    /\ UNCHANGED << Inputs, rsp, llvm_root, consulted, warning, child_code, runs, rsp_hist >>

\* if no_run: return 0
SkipRun ==
    /\ pc = "script"
    /\ no_run
    /\ pc' = "exited"
    /\ exit_code' = << 0 >>
    /\ UNCHANGED << Inputs, rsp, bat, llvm_root, consulted, warning, child_code,
                    steps, wrote, runs, rsp_hist >>

\* Exit codes the child process may end with.
BuildCodes == {0, 1, 3}

\* Variant: the build runs whether or not --no-run was given.
RunBuildAlways ==
    /\ pc = "script"
    /\ \E code \in BuildCodes : child_code' = << code >>
    /\ pc' = "exited"
    /\ exit_code' = child_code'
    /\ steps' = Append(steps, "run")
    /\ UNCHANGED << Inputs, rsp, bat, llvm_root, consulted, warning, wrote,
                    runs, rsp_hist >>

\* return run_build()
RunBuild ==
    /\ pc = "script"
    /\ ~no_run
    /\ \E code \in BuildCodes : child_code' = << code >>
    /\ pc' = "exited"
    /\ exit_code' = child_code'
    /\ steps' = Append(steps, "run")
    /\ UNCHANGED << Inputs, rsp, bat, llvm_root, consulted, warning, wrote,
                    runs, rsp_hist >>

\* The script is invoked again: same command line, environment and disk.
Restart ==
    /\ pc = "exited"
    /\ runs < MaxRuns
    /\ pc' = "start"
    /\ runs' = runs + 1
    /\ llvm_root' = NONE
    /\ consulted' = << >>
    /\ warning' = NoWarning
    /\ child_code' = << >>
    /\ exit_code' = << >>
    /\ steps' = << >>
    /\ wrote' = {}
    /\ UNCHANGED << Inputs, rsp, bat, rsp_hist >>

Next == Locate \/ GenerateManifest \/ GenerateScript \/ SkipRun \/ RunBuild \/ Restart

----------------------------------------------------------------------------
(* Initial states: the command line, environment and disk of one machine,  *)
(* and a first invocation about to start.                                   *)

Script == "build_auto.py"

EmptyDir  == [kind |-> "dir",  inc |-> FALSE, haslib |-> FALSE, libs |-> {}]
AFile     == [kind |-> "file", inc |-> FALSE, haslib |-> FALSE, libs |-> {}]
IncOnly   == [kind |-> "dir",  inc |-> TRUE,  haslib |-> FALSE, libs |-> {}]
LibDirOf(S)  == [kind |-> "dir", inc |-> FALSE, haslib |-> TRUE, libs |-> S]
IncAndLib(S) == [kind |-> "dir", inc |-> TRUE,  haslib |-> TRUE, libs |-> S]
LibOnly   == LibDirOf({"LLVMAnalysis.lib", "LLVMCore.lib"})
Full      == IncAndLib({"LLVMAnalysis.lib", "LLVMCore.lib", "LLVMCore.pdb"})

\* An entry can exist only inside a directory.
ChildOk(parent, child) == parent.kind = "dir" \/ child = Missing

MkFs(u1, u2, w1, w1a, w1b, w2, w2a, w3) ==
    ("C:\\work\\llvm" :> u1) @@ ("D:\\sdk" :> u2) @@
    ("C:\\LLVM-dev" :> w1) @@ ("C:\\LLVM-dev\\a" :> w1a) @@ ("C:\\LLVM-dev\\b" :> w1b) @@
    ("C:\\Program Files\\LLVM" :> w2) @@ ("C:\\Program Files\\LLVM\\a" :> w2a) @@
    ("C:\\llvm" :> w3)

MkEnv(a, b, c) == ("LLVM_PATH" :> a) @@ ("LLVM_DIR" :> b) @@ ("LLVM_HOME" :> c)

NoClang      == [ok |-> FALSE, root |-> NONE, suffix |-> ""]
Clang(r, sx) == [ok |-> TRUE, root |-> r, suffix |-> sx]

BoundedSeq(S, n) == UNION { [1..k -> S] : k \in 0..n }

OldSetLine  == << SetPrefix, "C:\\LLVM-dev\\old" >>
GoodTemplate == File(<< << "@echo off" >>, OldSetLine, << "call build.bat" >> >>)

\* The state of an invocation that is about to start.
Fresh ==
    /\ pc = "start"
    /\ llvm_root = NONE
    /\ consulted = << >>
    /\ warning = NoWarning
    /\ child_code = << >>
    /\ exit_code = << >>
    /\ steps = << >>
    /\ wrote = {}
    /\ runs = 1
    /\ rsp_hist = << >>

\* detect_llvm_path over command lines, environments and installations.
InitDetect ==
    /\ Fresh
    /\ argv \in { << Script >>, << Script, "--llvm", "" >>,
                  << Script, "--llvm", "llvm" >>,
                  << Script, "--llvm", "D:\\sdk", "--no-run" >> }
    /\ \E a \in {NONE, "", "llvm"}, b \in {NONE, "D:\\sdk"},
          c \in {NONE, "D:\\sdk"} : env = MkEnv(a, b, c)
    /\ \E u1 \in {EmptyDir, IncOnly, LibOnly}, u2 \in {Missing, Full},
          w1 \in {Missing, AFile, IncOnly, LibOnly},
          w1a \in {Missing, IncOnly, LibOnly}, w1b \in {Missing, LibOnly},
          w2 \in {Missing, IncOnly, LibOnly}, w2a \in {Missing, LibOnly},
          w3 \in {Missing, LibOnly} :
        /\ ChildOk(w1, w1a) /\ ChildOk(w1, w1b) /\ ChildOk(w2, w2a)
        /\ fs = MkFs(u1, u2, w1, w1a, w1b, w2, w2a, w3)
    /\ iter_rev \in BOOLEAN
    /\ iter_rev => Len(SelectSeq(Children("C:\\LLVM-dev"), Exists)) > 1  \* else the order is moot
    /\ where_clang \in { NoClang, Clang("C:\\llvm", ".exe"), Clang("D:\\sdk", ".cmd") }
    /\ rsp = Absent
    /\ tpl = GoodTemplate
    /\ bat = Absent

SpecDetect == InitDetect /\ [][Locate]_vars

\* Lines a pre-existing llvm_libs.rsp may hold.
ManifestLines ==
    { BlankLine, CommentLine,
      [q |-> TRUE,  dir |-> "C:\\LLVM-dev\\old\\lib", name |-> "LLVMCore.lib"],
      [q |-> TRUE,  dir |-> LibDir("D:\\sdk"),        name |-> "LLVMAnalysis.lib"],
      [q |-> FALSE, dir |-> "",                       name |-> "zlib.lib"],
      [q |-> TRUE,  dir |-> "C:\\LLVM-dev\\old\\lib", name |-> "LLVMCore.pdb"] }

\* A longer manifest left by another installation: six entries plus one.
LongManifest ==
    LET core == [q |-> TRUE, dir |-> "C:\\LLVM-dev\\old\\lib", name |-> "LLVMCore.lib"]
        zlib == [q |-> FALSE, dir |-> "", name |-> "zlib.lib"]
        anal == [q |-> TRUE, dir |-> LibDir("D:\\sdk"), name |-> "LLVMAnalysis.lib"]
    IN  << core, zlib, core, zlib, anal, core, zlib >>

\* generate_llvm_libs_rsp over previous manifests and contents of <root>/lib.
InitManifest ==
    /\ Fresh
    /\ argv \in { << Script, "--llvm", "D:\\sdk" >>,
                  << Script, "--llvm", "D:\\sdk", "--no-run" >> }
    /\ env = MkEnv(NONE, NONE, NONE)
    /\ \E u2 \in {IncOnly} \cup
                 { IncAndLib(S) : S \in SUBSET {"LLVMAnalysis.lib", "LLVMCore.lib", "zlib.lib"} } :
        fs = MkFs(Missing, u2, Missing, Missing, Missing, Missing, Missing, Missing)
    /\ iter_rev = FALSE
    /\ where_clang = NoClang
    /\ rsp \in {Absent, File(LongManifest)} \cup
               { File(l) : l \in BoundedSeq(ManifestLines, MaxManifestLen) }
    /\ tpl = GoodTemplate
    /\ bat = Absent

SpecManifest == InitManifest /\ [][Next]_vars

\* Lines rebuild_all.bat may hold.
TemplateLines ==
    { OldSetLine, << SetPrefix, "D:\\sdk" >>, << "  ", SetPrefix, "C:\\LLVM-dev\\old" >>,
      << "SET LLVM_DIR=", "C:\\LLVM-dev\\old" >>, << "echo building" >>, << >> }

\* generate_rebuild_auto_bat over templates.
InitScript ==
    /\ Fresh
    /\ argv \in { << Script, "--llvm", "D:\\sdk" >>,
                  << Script, "--llvm", "D:\\sdk", "--no-run" >> }
    /\ env = MkEnv(NONE, NONE, NONE)
    /\ fs = MkFs(Missing, Full, Missing, Missing, Missing, Missing, Missing, Missing)
    /\ iter_rev = FALSE
    /\ where_clang = NoClang
    /\ rsp \in { Absent, File(<< CommentLine >>) }
    /\ tpl \in {Absent} \cup { File(l) : l \in BoundedSeq(TemplateLines, MaxTemplateLen) }
    /\ bat \in { Absent, File(<< << "echo stale" >> >>) }

SpecScript == InitScript /\ [][Next]_vars

\* Whole invocations of main.
Init ==
    /\ Fresh
    /\ argv \in { << Script >>, << Script, "--no-run" >>, << Script, "--llvm" >>,
                  << Script, "--llvm", "llvm" >>, << Script, "--no-run", "--llvm", "D:\\sdk" >>,
                  << Script, "--llvm", "--no-run" >>, << Script, "--llvm", "" >> }
    /\ \E a \in {NONE, "llvm"} : env = MkEnv(a, NONE, NONE)
    /\ \E u1 \in {Missing, IncOnly, IncAndLib({"zlib.lib"}), Full},
          u2 \in {Missing, IncOnly, Full}, w3 \in {Missing, LibOnly} :
        fs = MkFs(u1, u2, Missing, Missing, Missing, Missing, Missing, w3)
    /\ iter_rev = FALSE
    /\ where_clang \in { NoClang, Clang("D:\\sdk", ".exe") }
    /\ rsp \in { Absent, File(<< CommentLine, [q |-> FALSE, dir |-> "", name |-> "LLVMCore.lib"] >>),
                 File(<< [q |-> TRUE, dir |-> "C:\\LLVM-dev\\old\\lib", name |-> "zlib.lib"] >>) }
    /\ tpl \in { Absent, File(<< << "echo building" >> >>), GoodTemplate }
    /\ bat = Absent

Spec == Init /\ [][Next]_vars

----------------------------------------------------------------------------
(* Properties of detect_llvm_path, read off the state after Locate.        *)

Located == pc # "start"
MarkerCheck(p) == HasCoreLib(p) \/ HasIncLlvm(p)

\* The strategy whose probe returned the root (NONE when nothing was found).
Winner == IF llvm_root = NONE THEN NONE ELSE consulted[Len(consulted)].s
IsEnvName(x) == \E i \in 1..Len(EnvNames) : EnvNames[i] = x
EnvIndex(x) == CHOOSE i \in 1..Len(EnvNames) : EnvNames[i] = x
EnvValid(i) == Truthy(env[EnvNames[i]]) /\ MarkerCheck(Resolve(env[EnvNames[i]]))

\* C1: with a (non-empty) override the result is decided by the override
\* alone: the resolved override if lib/LLVMCore.lib or include/llvm exists
\* under it, else not-found (exit 1); the override is the only thing probed.
C1_OverrideDecides ==
    (Located /\ Truthy(llvm_override)) =>
        LET p == Resolve(llvm_override) IN
        /\ consulted = << Probe("override", p) >>
        /\ MarkerCheck(p) => (llvm_root = p /\ pc = "located")
        /\ ~MarkerCheck(p) => (llvm_root = NONE /\ pc = "exited" /\ exit_code = << 1 >>)

\* C1 witness: a rejected override although an environment variable, a
\* well-known directory and clang all point at valid installations.
C1_Witness ==
    /\ Located /\ Truthy(llvm_override) /\ ~MarkerCheck(Resolve(llvm_override))
    /\ llvm_root = NONE
    /\ EnvValid(2)
    /\ HasCoreLib("C:\\LLVM-dev")
    /\ where_clang = Clang("C:\\llvm", ".exe") /\ HasCoreLib("C:\\llvm")

\* C2 as stated: the first variable that is set wins, so a later variable is
\* never the one returned when an earlier variable is set.
C2_FirstSetWins ==
    (Located /\ ~Truthy(llvm_override)) =>
        \A i, j \in 1..Len(EnvNames) :
            (i < j /\ Truthy(env[EnvNames[i]])) => Winner # EnvNames[j]

\* C2 amended: the variables are probed in the fixed order and the first one
\* that is set AND passes the marker check wins; a set variable that fails
\* the check is passed over and a later one may be returned.
C2_FirstValidWins ==
    (Located /\ ~Truthy(llvm_override)) =>
        /\ \A j \in 1..Len(EnvNames) :
              (EnvValid(j) /\ \A i \in 1..(j - 1) : ~EnvValid(i)) =>
                  /\ Winner = EnvNames[j]
                  /\ llvm_root = Resolve(env[EnvNames[j]])
        /\ IsEnvName(Winner) => EnvValid(EnvIndex(Winner))
        /\ \A m, n \in 1..Len(consulted) :
              (m < n /\ IsEnvName(consulted[m].s) /\ IsEnvName(consulted[n].s)) =>
                  EnvIndex(consulted[m].s) < EnvIndex(consulted[n].s)

\* C2 witness: LLVM_PATH is set but fails the check, LLVM_DIR is returned.
C2_Witness ==
    /\ Located /\ ~Truthy(llvm_override)
    /\ Truthy(env["LLVM_PATH"]) /\ ~EnvValid(1)
    /\ Winner = "LLVM_DIR" /\ llvm_root = Resolve(env["LLVM_DIR"])

\* The well-known-directory strategy was reached.
ReachedCommon == Located /\ ~Truthy(llvm_override) /\ ~IsEnvName(Winner)
DirProbes == SelectSeq(consulted, LAMBDA pr : pr.s = "dir")
SubProbes == SelectSeq(consulted, LAMBDA pr : pr.s = "sub")
IsChildOf(sub, base) == \E k \in 1..Len(Children(base)) : Children(base)[k] = sub
FirstExisting(i) == Exists(candidates[i]) /\ \A j \in 1..(i - 1) : ~Exists(candidates[j])

\* C9: only the first existing well-known directory is examined; missing
\* ones are skipped; when it yields no root no later one is examined and
\* detection proceeds to clang.
C9_OnlyFirstExisting ==
    ReachedCommon =>
        /\ Len(DirProbes) <= 1
        /\ (\A i \in 1..Len(candidates) : ~Exists(candidates[i])) => DirProbes = << >>
        /\ \A i \in 1..Len(candidates) :
              FirstExisting(i) =>
                  /\ DirProbes = << Probe("dir", candidates[i]) >>
                  /\ \A n \in 1..Len(SubProbes) : IsChildOf(SubProbes[n].p, candidates[i])
                  /\ Winner \in {"dir", "sub"} =>
                        (llvm_root = candidates[i] \/ IsChildOf(llvm_root, candidates[i]))
        /\ Winner \notin {"dir", "sub"} => consulted[Len(consulted)].s = "clang"

\* C9 witness: C:\LLVM-dev exists and yields nothing, C:\Program Files\LLVM
\* is a valid installation and is not examined; nothing is found.
C9_Witness ==
    /\ ReachedCommon
    /\ Exists("C:\\LLVM-dev") /\ DirProbes = << Probe("dir", "C:\\LLVM-dev") >>
    /\ HasCoreLib("C:\\Program Files\\LLVM")
    /\ llvm_root = NONE
    /\ consulted[Len(consulted)].s = "clang"

\* The probe returned the root it looked at.
Accepted(n) == n = Len(consulted) /\ llvm_root = consulted[n].p

\* C10 as stated: in the override, environment and well-known-directory
\* strategies every examined candidate is accepted exactly when
\* lib/LLVMCore.lib or include/llvm exists under it.
C10_EitherMarkerEverywhere ==
    Located =>
        \A n \in 1..Len(consulted) :
            consulted[n].s # "clang" => (Accepted(n) <=> MarkerCheck(consulted[n].p))

\* C10 amended: override and environment candidates are accepted exactly on
\* either marker; a well-known directory and its immediate subdirectories
\* are accepted exactly when they are directories holding lib/LLVMCore.lib
\* (include/llvm alone is not enough there).
C10_MarkerPerStrategy ==
    Located =>
        \A n \in 1..Len(consulted) :
            LET pr == consulted[n] IN
            /\ (pr.s = "override" \/ IsEnvName(pr.s)) =>
                  (Accepted(n) <=> MarkerCheck(pr.p))
            /\ pr.s \in {"dir", "sub"} =>
                  (Accepted(n) <=> (IsDir(pr.p) /\ HasCoreLib(pr.p)))

\* C10 witness: the examined well-known directory has include/llvm only and
\* is not returned.
C10_Witness ==
    /\ ReachedCommon
    /\ DirProbes = << Probe("dir", "C:\\LLVM-dev") >>
    /\ HasIncLlvm("C:\\LLVM-dev") /\ ~HasCoreLib("C:\\LLVM-dev")
    /\ llvm_root # "C:\\LLVM-dev"

----------------------------------------------------------------------------
(* Properties of generate_llvm_libs_rsp                                     *)

\* The basenames of the path lines of a manifest.
PathNames(lines) == NamesOf(SelectSeq(lines, LAMBDA l : ~IsBlank(l)))
Count(s, x) == Cardinality({i \in 1..Len(s) : s[i] = x})
InSeq(s, x) == \E i \in 1..Len(s) : s[i] = x

RECURSIVE IsSubseq(_, _)
IsSubseq(a, b) ==
    IF a = << >> THEN TRUE
    ELSE IF b = << >> THEN FALSE
    ELSE IF Head(a) = Head(b) THEN IsSubseq(Tail(a), Tail(b))
    ELSE IsSubseq(a, Tail(b))

\* A call of generate_llvm_libs_rsp that does not raise.
ManifestRun == pc = "located" /\ pc' # "located" /\ LibDirExists(llvm_root)

\* C3 as stated: a second generation with the root and lib/ unchanged
\* writes exactly what the first one wrote, whatever llvm_libs.rsp held.
C3_Idempotent ==
    Len(rsp_hist) >= 2 => rsp_hist[2] = rsp_hist[1]

\* C4: a successful generation writes only quoted paths of files that exist
\* under <root>/lib; each input basename that does not exist there is left
\* out and counted in the warning (and named, among the first PreviewLen);
\* the step does not fail.
C4_OnlyExistingWritten ==
    [][ ManifestRun =>
          LET input == lib_basenames(llvm_root)
              gone  == {i \in 1..Len(input) : ~LibExists(llvm_root, input[i])}
          IN  /\ pc' = "manifest" /\ exit_code' = << >> /\ rsp'.exists
              /\ \A k \in 1..Len(rsp'.lines) :
                    LET l == rsp'.lines[k] IN
                    \/ IsBlank(l) /\ Len(rsp'.lines) = 1
                    \/ l.q /\ l.dir = LibDir(llvm_root) /\ LibExists(llvm_root, l.name)
              /\ \A i \in gone : ~InSeq(PathNames(rsp'.lines), input[i])
              /\ warning'.count = Cardinality(gone)
              /\ \A i \in gone :
                    \/ InSeq(warning'.preview, input[i])
                    \/ Cardinality({j \in gone : j < i}) >= PreviewLen
    ]_vars

\* C4 witness: a manifest was written with at least one path although some
\* input basenames were missing, and the invocation goes on.
C4_Witness ==
    /\ pc = "manifest" /\ exit_code = << >>
    /\ warning.count >= 1
    /\ PathNames(rsp.lines) # << >>

\* C5: when the previous manifest yields a basename, the output is exactly
\* the surviving basenames in their previous relative order (nothing added
\* from the scan); otherwise it is the alphabetical scan of LLVM*.lib.
C5_OrderPreserved ==
    [][ ManifestRun =>
          LET prev == IF rsp.exists THEN BasenamesOf(rsp.lines) ELSE << >>
              out  == PathNames(rsp'.lines)
          IN  /\ prev # << >> =>
                    /\ IsSubseq(out, prev)
                    /\ \A m \in 1..Len(AllNames) :
                          Count(out, AllNames[m]) =
                              IF LibExists(llvm_root, AllNames[m])
                              THEN Count(prev, AllNames[m]) ELSE 0
              /\ prev = << >> =>
                    /\ \A m \in 1..Len(AllNames) :
                          InSeq(out, AllNames[m]) <=>
                              (GlobLLVMLib(AllNames[m]) /\ LibExists(llvm_root, AllNames[m]))
                    /\ \A i, j \in 1..Len(out) :
                          i < j => \E m, n \in 1..Len(AllNames) :
                                      m < n /\ AllNames[m] = out[i] /\ AllNames[n] = out[j]
    ]_vars

\* C5 witness: the output keeps zlib.lib ahead of LLVMAnalysis.lib, an order
\* only the previous manifest can give, with one entry of it dropped.
C5_Witness ==
    /\ pc = "manifest"
    /\ PathNames(rsp.lines) = << "zlib.lib", "LLVMAnalysis.lib" >>
    /\ warning.count = 1

----------------------------------------------------------------------------
(* Properties of generate_rebuild_auto_bat                                  *)

WroteBat == "rebuild_auto.bat" \in wrote
IsFirstMatch(k) ==
    /\ k \in 1..Len(tpl.lines)
    /\ Matches(tpl.lines[k])
    /\ \A j \in 1..(k - 1) : ~Matches(tpl.lines[j])
DiffLines == {i \in 1..Len(tpl.lines) : bat.lines[i] # tpl.lines[i]}

\* C6 as stated: the output has as many lines as the template and differs
\* from it in exactly one line, the first matching one.
C6_ExactlyOneLineDiffers ==
    WroteBat =>
        /\ Len(bat.lines) = Len(tpl.lines)
        /\ \E k \in 1..Len(tpl.lines) :
              /\ IsFirstMatch(k)
              /\ bat.lines[k] = << "set LLVM_DIR=", llvm_root >>
              /\ DiffLines = {k}

\* C6 amended: same number of lines; the first matching line reads
\* set LLVM_DIR=<root> (root as literal text); every other line, later
\* matching lines included, is kept verbatim and in place; so the output
\* differs in at most one line, and in none exactly when the template's
\* first matching line already read set LLVM_DIR=<root>.
C6_FirstMatchReplaced ==
    WroteBat =>
        /\ Len(bat.lines) = Len(tpl.lines)
        /\ \E k \in 1..Len(tpl.lines) :
              /\ IsFirstMatch(k)
              /\ bat.lines[k] = << "set LLVM_DIR=", llvm_root >>
              /\ \A i \in 1..Len(tpl.lines) : i # k => bat.lines[i] = tpl.lines[i]
              /\ DiffLines \subseteq {k}
              /\ DiffLines = {} <=> tpl.lines[k] = << "set LLVM_DIR=", llvm_root >>

\* C6 witness: a template with two matching lines; only the first changed.
C6_Witness ==
    /\ WroteBat
    /\ Cardinality({i \in 1..Len(tpl.lines) : Matches(tpl.lines[i])}) >= 2
    /\ Cardinality(DiffLines) = 1
    /\ \E i \in 1..Len(tpl.lines) :
          Matches(tpl.lines[i]) /\ bat.lines[i] = tpl.lines[i]
                                /\ bat.lines[i] # << "set LLVM_DIR=", llvm_root >>

\* C7: when the template is missing or has no matching line, script
\* generation ends the invocation with an error and changes no file:
\* rebuild_auto.bat and llvm_libs.rsp keep what they held when it started.
C7_FailureChangesNothing ==
    [][ ( /\ pc = "manifest" /\ pc' # "manifest"
          /\ \/ ~tpl.exists
             \/ \A i \in 1..Len(tpl.lines) : ~Matches(tpl.lines[i]) ) =>
          /\ pc' = "exited" /\ exit_code' # << >> /\ exit_code'[1] # 0
          /\ bat' = bat
          /\ rsp' = rsp
          /\ wrote' = wrote
    ]_vars

\* C7 witness: the template exists without a matching line; the invocation
\* has failed in script generation, the manifest of this run and the stale
\* rebuild_auto.bat are still on disk.
C7_Witness ==
    /\ pc = "exited" /\ steps = << "locate", "manifest", "script" >>
    /\ exit_code = << 1 >>
    /\ tpl.exists /\ tpl.lines # << >> /\ \A i \in 1..Len(tpl.lines) : ~Matches(tpl.lines[i])
    /\ wrote = {"llvm_libs.rsp"} /\ rsp.exists
    /\ bat = File(<< << "echo stale" >> >>)

----------------------------------------------------------------------------
(* Properties of main                                                       *)

Order == << "locate", "manifest", "script", "run" >>
Exited == pc = "exited"

\* C8: the steps of an invocation are a prefix of Locate, manifest, script,
\* Run; the build runs only without --no-run and after both files were
\* written in this invocation; no root: exit 1 and nothing written; a
\* failed generation step: no later step and a non-zero exit; the child's
\* exit code is returned unchanged; --no-run after both writes: exit 0.
C8_StepsInOrder ==
    /\ Len(steps) <= Len(Order) /\ steps = SubSeq(Order, 1, Len(steps))
    /\ InSeq(steps, "run") =>
          /\ ~no_run
          /\ wrote = {"llvm_libs.rsp", "rebuild_auto.bat"}
          /\ child_code # << >> /\ exit_code = child_code
    /\ ~InSeq(steps, "run") => child_code = << >>
    /\ (Exited /\ steps = << "locate" >>) =>
          (llvm_root = NONE /\ exit_code = << 1 >> /\ wrote = {})
    /\ (Located /\ llvm_root = NONE) => (Exited /\ steps = << "locate" >>)
    /\ (Exited /\ steps = << "locate", "manifest" >>) =>
          (exit_code # << >> /\ exit_code[1] # 0 /\ wrote = {})
    /\ (Exited /\ steps = << "locate", "manifest", "script" >> /\ wrote # {"llvm_libs.rsp", "rebuild_auto.bat"}) =>
          (exit_code # << >> /\ exit_code[1] # 0 /\ wrote = {"llvm_libs.rsp"})
    /\ (Exited /\ steps = << "locate", "manifest", "script" >> /\ wrote = {"llvm_libs.rsp", "rebuild_auto.bat"}) =>
          (no_run /\ exit_code = << 0 >>)
    /\ Exited <=> exit_code # << >>
    /\ (Exited /\ no_run /\ wrote = {"llvm_libs.rsp", "rebuild_auto.bat"}) => exit_code = << 0 >>

\* C8 witness: the root was accepted through include/llvm, <root>/lib is
\* missing: manifest generation fails, nothing is written, exit code 1.
C8_Witness ==
    /\ Exited /\ steps = << "locate", "manifest" >>
    /\ llvm_root # NONE /\ HasIncLlvm(llvm_root) /\ ~LibDirExists(llvm_root)
    /\ wrote = {} /\ exit_code = << 1 >>

====
